---------------------------- MODULE Spec2Model ----------------------------
(***************************************************************************)
(* MITRE ATT&CK extraction (clean_data.py): the STIX bundle partitioner,   *)
(* the technique resolver and the per-folder output accumulator.           *)
(*                                                                         *)
(* Strings are sequences of character codes, so that slicing, length and   *)
(* lexicographic comparison are computed as Python computes them.          *)
(* A Python dict is a sequence of objects in first-insertion order of      *)
(* their `id`, a later store with the same key replacing in place.         *)
(* An Optional[str] is a sequence of length 0 (None) or 1 (the string).    *)
(***************************************************************************)
EXTENDS Naturals, Sequences, FiniteSets

VARIABLES
    \* ---- process_folder ----
    folder,             \* the *.json files of the folder: file name -> parsed content
    pc,                 \* position inside process_folder
    json_files,         \* the sorted list of file names
    idx,                \* number of files of json_files already handled
    all_technique_ids,  \* set of technique ids seen so far
    total_techniques,   \* running count
    processed_files,    \* names of the files handled without an exception
    disk,               \* the output file
    warnings,           \* persistence warnings printed so far
    \* ---- one bundle through partitioner and resolver ----
    bundle,             \* the `objects` list of one parsed bundle
    bpc,                \* position of the bundle run
    processed_data,     \* result of process_stix_data
    results             \* extract_technique_data of each attack pattern

vars == <<folder, pc, json_files, idx, all_technique_ids, total_techniques,
          processed_files, disk, warnings, bundle, bpc, processed_data, results>>

folderVars == <<folder, pc, json_files, idx, all_technique_ids, total_techniques,
                processed_files, disk, warnings>>

bundleVars == <<bundle, bpc, processed_data, results>>

----------------------------------------------------------------------------
(* Bounds of the model *)

MaxFiles == 3       \* files in a folder
MaxObjects == 4     \* objects in the bundle of the bundle run

(* Program constant: the description cut-off of find_relationships *)
TruncLen == 200

----------------------------------------------------------------------------
(* Strings *)

\* s[:n]
Prefix(s, n) == SubSeq(s, 1, IF Len(s) < n THEN Len(s) ELSE n)

\* '...'
Ellipsis == <<46, 46, 46>>

\* Python's str `<`: lexicographic on code points, a proper prefix is smaller
RECURSIVE StrLess(_, _)
StrLess(a, b) ==
    IF b = <<>> THEN FALSE
    ELSE IF a = <<>> THEN TRUE
    ELSE IF Head(a) # Head(b) THEN Head(a) < Head(b)
    ELSE StrLess(Tail(a), Tail(b))

\* a string of n characters, not all alike
MkStr(n) == [i \in 1..n |-> 97 + (i % 3)]

None == <<>>
Some(s) == <<s>>

\* Python truthiness of an Optional[str]: None and '' are falsy
Truthy(opt) == opt # None /\ opt[1] # <<>>

----------------------------------------------------------------------------
(* STIX objects *)

NoRef == [prefix |-> "", uuid |-> 0]
Ref(p, n) == [prefix |-> p, uuid |-> n]

\* an entry of an object's external_references
ExtRef(src, has, id) == [source_name |-> src, has_external_id |-> has, external_id |-> id]

Obj(type, id, name, desc, descNull, refs) ==
    [type |-> type, id |-> id, name |-> name, description |-> desc,
     description_null |-> descNull, external_references |-> refs,
     source_ref |-> NoRef, target_ref |-> NoRef, relationship_type |-> ""]

Rel(rtype, src, tgt) ==
    [type |-> "relationship", id |-> NoRef, name |-> "", description |-> <<>>,
     description_null |-> FALSE, external_references |-> <<>>,
     source_ref |-> src, target_ref |-> tgt, relationship_type |-> rtype]

----------------------------------------------------------------------------
(* dict *)

DictHas(d, k) == \E i \in 1..Len(d) : d[i].id = k

DictGet(d, k) == d[CHOOSE i \in 1..Len(d) : d[i].id = k]

\* d[obj.id] = obj
DictPut(d, obj) ==
    IF DictHas(d, obj.id)
    THEN [i \in 1..Len(d) |-> IF d[i].id = obj.id THEN obj ELSE d[i]]
    ELSE Append(d, obj)

\* a | b
RECURSIVE DictUnion(_, _)
DictUnion(a, b) ==
    IF b = <<>> THEN a ELSE DictUnion(DictPut(a, Head(b)), Tail(b))

----------------------------------------------------------------------------
(* extract_technique_id *)

\* mutant: the source label of the entry is not looked at
RECURSIVE extract_technique_id_any_source(_)
extract_technique_id_any_source(external_refs) ==
    IF external_refs = <<>> THEN None
    ELSE LET ref == Head(external_refs) IN
         IF ref.has_external_id
         THEN Some(ref.external_id)
         ELSE extract_technique_id_any_source(Tail(external_refs))

RECURSIVE extract_technique_id(_)
extract_technique_id(external_refs) ==
    IF external_refs = <<>> THEN None
    ELSE LET ref == Head(external_refs) IN
         IF ref.source_name = "mitre-attack" /\ ref.has_external_id
         THEN Some(ref.external_id)
         ELSE extract_technique_id(Tail(external_refs))

\* mutant: a description of exactly TruncLen characters is cut too
BriefDescription_from_limit(description) ==
    IF Len(description) >= TruncLen
    THEN Prefix(description, TruncLen) \o Ellipsis
    ELSE description

(* the brief description of a reference *)
BriefDescription(description) ==
    IF Len(description) > TruncLen
    THEN Prefix(description, TruncLen) \o Ellipsis
    ELSE description

BriefRef(obj) ==
    [name |-> obj.name,
     description |-> BriefDescription(obj.description),
     id |-> extract_technique_id(obj.external_references)]

(* one iteration of the loop of find_relationships *)
RelStep(technique_id, rel, mitigations, groups, software, result) ==
    IF rel.target_ref.prefix = "attack-pattern"
    THEN IF rel.relationship_type = "mitigates" /\ DictHas(mitigations, rel.source_ref)
         THEN [result EXCEPT !.mitigations =
                   Append(@, BriefRef(DictGet(mitigations, rel.source_ref)))]
         ELSE IF rel.relationship_type = "uses"
         THEN IF DictHas(groups, rel.source_ref)
              THEN [result EXCEPT !.groups =
                        Append(@, BriefRef(DictGet(groups, rel.source_ref)))]
              ELSE IF DictHas(software, rel.source_ref)
              THEN [result EXCEPT !.software =
                        Append(@, BriefRef(DictGet(software, rel.source_ref)))]
              ELSE result
         ELSE result
    ELSE result

RECURSIVE RelLoop(_, _, _, _, _, _)
RelLoop(technique_id, rels, mitigations, groups, software, result) ==
    IF rels = <<>> THEN result
    ELSE RelLoop(technique_id, Tail(rels), mitigations, groups, software,
                 RelStep(technique_id, Head(rels), mitigations, groups, software, result))

find_relationships(technique_id, relationships, mitigations, groups, software) ==
    RelLoop(technique_id, relationships, mitigations, groups, software,
            [mitigations |-> <<>>, groups |-> <<>>, software |-> <<>>])

----------------------------------------------------------------------------
(* process_stix_data *)

EmptyByType ==
    [attack_pattern |-> <<>>, course_of_action |-> <<>>, intrusion_set |-> <<>>,
     malware |-> <<>>, tool |-> <<>>, relationships |-> <<>>]

\* one iteration of the loop over stix_data['objects']
PartitionStep(acc, obj) ==
    IF obj.type = "relationship"
    THEN [acc EXCEPT !.relationships = Append(@, obj)]
    ELSE IF obj.id # NoRef
    THEN IF obj.type = "attack-pattern"
         THEN [acc EXCEPT !.attack_pattern = DictPut(@, obj)]
         ELSE IF obj.type = "course-of-action"
         THEN [acc EXCEPT !.course_of_action = DictPut(@, obj)]
         ELSE IF obj.type = "intrusion-set"
         THEN [acc EXCEPT !.intrusion_set = DictPut(@, obj)]
         ELSE IF obj.type = "malware"
         THEN [acc EXCEPT !.malware = DictPut(@, obj)]
         ELSE IF obj.type = "tool"
         THEN [acc EXCEPT !.tool = DictPut(@, obj)]
         ELSE acc
    ELSE acc

RECURSIVE PartitionLoop(_, _)
PartitionLoop(acc, objects) ==
    IF objects = <<>> THEN acc
    ELSE PartitionLoop(PartitionStep(acc, Head(objects)), Tail(objects))

\* mutant: the union taken the other way round
SoftwareBucket_malware_wins(malware, tool) == DictUnion(tool, malware)

SoftwareBucket(malware, tool) == DictUnion(malware, tool)

process_stix_data(objects) ==
    LET by == PartitionLoop(EmptyByType, objects) IN
    [attack_patterns |-> by.attack_pattern,
     mitigations |-> by.course_of_action,
     groups |-> by.intrusion_set,
     software |-> SoftwareBucket(by.malware, by.tool),
     relationships |-> by.relationships]

EmptyProcessed == process_stix_data(<<>>)

----------------------------------------------------------------------------
(* extract_technique_data *)

NoRecord ==
    [technique_id |-> <<>>, name |-> "", description |-> <<>>,
     mitigations |-> <<>>, related_groups |-> <<>>, related_software |-> <<>>]

\* status: "none" (returned None), "raise" (an exception left the call), "ok"
extract_technique_data(attack_pattern, pdata) ==
    LET technique_id == extract_technique_id(attack_pattern.external_references) IN
    IF ~Truthy(technique_id)
    THEN [status |-> "none", record |-> NoRecord]
    ELSE LET relationships_data ==
                 find_relationships(attack_pattern.id, pdata.relationships,
                                    pdata.mitigations, pdata.groups, pdata.software)
         IN IF attack_pattern.description_null
            THEN [status |-> "raise", record |-> NoRecord]
            ELSE [status |-> "ok",
                  record |-> [technique_id |-> technique_id[1],
                              name |-> attack_pattern.name,
                              description |-> attack_pattern.description,
                              mitigations |-> relationships_data.mitigations,
                              related_groups |-> relationships_data.groups,
                              related_software |-> relationships_data.software]]

----------------------------------------------------------------------------
(* The output file *)

InitialMetadata == [total_techniques |-> 0, processed_files |-> <<>>]

NoFile ==
    [exists |-> FALSE, readable |-> FALSE, metadata |-> InitialMetadata, techniques |-> <<>>]

\* what is left of the file when a write is interrupted: no JSON document
BrokenFile ==
    [exists |-> TRUE, readable |-> FALSE, metadata |-> InitialMetadata, techniques |-> <<>>]

\* initial_data, as dumped to output_path
InitialFile ==
    [exists |-> TRUE, readable |-> TRUE, metadata |-> InitialMetadata, techniques |-> <<>>]

\* outcomes of one read-modify-write of the output file: it succeeds, it raises
\* before the file is touched, or it raises while the file is being rewritten
IoOutcomes == {"ok", "fail_read", "fail_write"}

\* list.sort(key=technique_id): stable, ascending in Python's string order
RECURSIVE InsertSorted(_, _)
InsertSorted(sorted, rec) ==
    IF sorted = <<>> THEN <<rec>>
    ELSE IF StrLess(rec.technique_id, Head(sorted).technique_id)
         THEN <<rec>> \o sorted
         ELSE <<Head(sorted)>> \o InsertSorted(Tail(sorted), rec)

RECURSIVE SortLoop(_, _)
SortLoop(sorted, rest) ==
    IF rest = <<>> THEN sorted ELSE SortLoop(InsertSorted(sorted, Head(rest)), Tail(rest))

\* mutant: the list is left as extended
SortByTechniqueId_unsorted(techniques) == techniques

SortByTechniqueId(techniques) == SortLoop(<<>>, techniques)

\* whether the try block of a read-modify-write leaves through its except clause
PersistFails(file, io) == ~file.readable \/ io # "ok"

append_techniques_to_file(file, new_techniques, io) ==
    IF ~file.readable \/ io = "fail_read" THEN file
    ELSE IF io = "fail_write" THEN BrokenFile
    ELSE [file EXCEPT !.techniques = SortByTechniqueId(file.techniques \o new_techniques)]

\* mutant: the list of processed files is not written
update_metadata_count_only(file, total, files, io) ==
    IF ~file.readable \/ io = "fail_read" THEN file
    ELSE IF io = "fail_write" THEN BrokenFile
    ELSE [file EXCEPT !.metadata.total_techniques = total]

update_metadata(file, total, files, io) ==
    IF ~file.readable \/ io = "fail_read" THEN file
    ELSE IF io = "fail_write" THEN BrokenFile
    ELSE [file EXCEPT !.metadata = [total_techniques |-> total, processed_files |-> files]]

----------------------------------------------------------------------------
(* process_folder: the body of the try block of one file, up to the append *)

\* the loop over attack_patterns.values(); an exception leaves it with the
\* identifiers added so far still in all_technique_ids
RECURSIVE ResolveLoop(_, _, _, _)
ResolveLoop(aps, pdata, seen, file_techniques) ==
    IF aps = <<>>
    THEN [raised |-> FALSE, file_techniques |-> file_techniques, seen |-> seen]
    ELSE LET technique_data == extract_technique_data(Head(aps), pdata) IN
         IF technique_data.status = "raise"
         THEN [raised |-> TRUE, file_techniques |-> <<>>, seen |-> seen]
         ELSE IF technique_data.status = "ok"
                 /\ technique_data.record.technique_id \notin seen
         THEN ResolveLoop(Tail(aps), pdata,
                          seen \cup {technique_data.record.technique_id},
                          Append(file_techniques, technique_data.record))
         ELSE ResolveLoop(Tail(aps), pdata, seen, file_techniques)

\* mutant: an exception of the resolver is swallowed per attack pattern
RECURSIVE ResolveLoop_swallow(_, _, _, _)
ResolveLoop_swallow(aps, pdata, seen, file_techniques) ==
    IF aps = <<>>
    THEN [raised |-> FALSE, file_techniques |-> file_techniques, seen |-> seen]
    ELSE LET technique_data == extract_technique_data(Head(aps), pdata) IN
         IF technique_data.status = "ok"
            /\ technique_data.record.technique_id \notin seen
         THEN ResolveLoop_swallow(Tail(aps), pdata,
                                  seen \cup {technique_data.record.technique_id},
                                  Append(file_techniques, technique_data.record))
         ELSE ResolveLoop_swallow(Tail(aps), pdata, seen, file_techniques)

FileOutcome_swallow(file, seen) ==
    IF file.load # "ok"
    THEN [raised |-> TRUE, file_techniques |-> <<>>, seen |-> seen]
    ELSE LET pdata == process_stix_data(file.objects) IN
         ResolveLoop_swallow(pdata.attack_patterns, pdata, seen, <<>>)

\* json.load, process_stix_data and the resolution loop of one file
FileOutcome(file, seen) ==
    IF file.load # "ok"
    THEN [raised |-> TRUE, file_techniques |-> <<>>, seen |-> seen]
    ELSE LET pdata == process_stix_data(file.objects) IN
         ResolveLoop(pdata.attack_patterns, pdata, seen, <<>>)

\* json_files.sort()
RECURSIVE InsertName(_, _)
InsertName(sorted, name) ==
    IF sorted = <<>> THEN <<name>>
    ELSE IF StrLess(name, Head(sorted))
         THEN <<name>> \o sorted
         ELSE <<Head(sorted)>> \o InsertName(Tail(sorted), name)

RECURSIVE SortNames(_)
SortNames(names) ==
    IF names = <<>> THEN <<>>
    ELSE InsertName(SortNames(SubSeq(names, 1, Len(names) - 1)), names[Len(names)])

\* the orders in which glob may list a set of names
Listings(S) == { l \in [1..Cardinality(S) -> S] : \A x \in S : \E i \in DOMAIN l : l[i] = x }

SortedFiles(listing) == SortNames(listing)

----------------------------------------------------------------------------
(* Inputs of process_folder *)

\* the i-th file name: "b", "ab", "ba", "abb", "baa", ...
FileName(i) ==
    IF i % 2 = 1
    THEN <<98>> \o [k \in 1..(i \div 2) |-> 97]
    ELSE <<97>> \o [k \in 1..(i \div 2) |-> 98]

TId(s) == <<ExtRef("mitre-attack", TRUE, s)>>

Pattern(n, name, refs, descNull) ==
    Obj("attack-pattern", Ref("attack-pattern", n), name, MkStr(1), descNull, refs)

Bundle(objects) == [load |-> "ok", objects |-> objects]

\* the parsed contents a file of the folder may have
FileCatalog ==
    { \* T2 then T1
      Bundle(<<Pattern(1, "f1a", TId(<<84, 50>>), FALSE),
               Pattern(2, "f1b", TId(<<84, 49>>), FALSE)>>),
      \* T1 with other content, a mitigation and an edge to another pattern
      Bundle(<<Pattern(1, "f2a", TId(<<84, 49>>), FALSE),
               Obj("course-of-action", Ref("x", 1), "coa", MkStr(2), FALSE, TId(<<77, 49>>)),
               Rel("mitigates", Ref("x", 1), Ref("attack-pattern", 7))>>),
      \* T1, then a pattern T3 whose description is null
      Bundle(<<Pattern(1, "f3a", TId(<<84, 49>>), FALSE),
               Pattern(2, "f3b", TId(<<84, 51>>), TRUE)>>),
      \* T10 twice under two object identifiers, and a pattern without identifier
      Bundle(<<Pattern(1, "f4a", TId(<<84, 49, 48>>), FALSE),
               Pattern(2, "f4b", <<ExtRef("capec", TRUE, <<88>>)>>, TRUE),
               Pattern(3, "f4c", TId(<<84, 49, 48>>), FALSE)>>),
      \* no objects
      Bundle(<<>>),
      \* not JSON
      [load |-> "bad_json", objects |-> <<>>],
      \* JSON of another shape
      [load |-> "bad_structure", objects |-> <<>>] }

Folders == UNION { [{FileName(i) : i \in 1..n} -> FileCatalog] : n \in 0..MaxFiles }

----------------------------------------------------------------------------
(* process_folder *)

BundleIdle ==
    /\ bundle = <<>>
    /\ bpc = "idle"
    /\ processed_data = EmptyProcessed
    /\ results = <<>>

Init ==
    /\ folder \in Folders
    /\ pc = "start"
    /\ json_files = <<>>
    /\ idx = 0
    /\ all_technique_ids = {}
    /\ total_techniques = 0
    /\ processed_files = <<>>
    /\ disk = NoFile
    /\ warnings = 0
    /\ BundleIdle

\* no *.json file in the folder: return
NoJsonFiles ==
    /\ pc = "start"
    /\ DOMAIN folder = {}
    /\ pc' = "skipped"
    /\ UNCHANGED <<folder, json_files, idx, all_technique_ids, total_techniques,
                   processed_files, disk, warnings>>
    /\ UNCHANGED bundleVars

\* glob, sort, and the dump of initial_data
CreateOutput ==
    /\ pc = "start"
    /\ DOMAIN folder # {}
    /\ \E listing \in Listings(DOMAIN folder) : json_files' = SortedFiles(listing)
    /\ \/ /\ disk' = InitialFile
          /\ pc' = "loop"
       \/ /\ disk' \in {NoFile, BrokenFile}
          /\ pc' = "abandoned"
    /\ UNCHANGED <<folder, idx, all_technique_ids, total_techniques,
                   processed_files, warnings>>
    /\ UNCHANGED bundleVars

\* one iteration of `for json_file in json_files`
ProcessFile ==
    /\ pc = "loop"
    /\ idx < Len(json_files)
    /\ LET filename == json_files[idx + 1]
           out == FileOutcome(folder[filename], all_technique_ids)
       IN /\ idx' = idx + 1
          /\ all_technique_ids' = out.seen
          /\ IF out.raised
             THEN UNCHANGED <<total_techniques, processed_files, disk, warnings>>
             ELSE /\ processed_files' = Append(processed_files, filename)
                  /\ IF out.file_techniques # <<>>
                     THEN /\ total_techniques' = total_techniques + Len(out.file_techniques)
                          /\ \E io \in IoOutcomes :
                                /\ disk' = append_techniques_to_file(disk, out.file_techniques, io)
                                /\ warnings' = IF PersistFails(disk, io)
                                               THEN warnings + 1 ELSE warnings
                     ELSE UNCHANGED <<total_techniques, disk, warnings>>
    /\ UNCHANGED <<folder, pc, json_files>>
    /\ UNCHANGED bundleVars

\* update_metadata after the loop
Finish ==
    /\ pc = "loop"
    /\ idx = Len(json_files)
    /\ \E io \in IoOutcomes :
          /\ disk' = update_metadata(disk, total_techniques, processed_files, io)
          /\ warnings' = IF PersistFails(disk, io) THEN warnings + 1 ELSE warnings
    /\ pc' = "done"
    /\ UNCHANGED <<folder, json_files, idx, all_technique_ids, total_techniques,
                   processed_files>>
    /\ UNCHANGED bundleVars

Next == NoJsonFiles \/ CreateOutput \/ ProcessFile \/ Finish

Spec == Init /\ [][Next]_vars

----------------------------------------------------------------------------
(* Inputs of the bundle run *)

\* external_references lists: 'T1'; a foreign entry with an id, a mitre entry
\* without one, then 'T2' before 'T1'; no usable entry; an empty external_id
RefLists ==
    { <<ExtRef("mitre-attack", TRUE, <<84, 49>>)>>,
      <<ExtRef("capec", TRUE, <<88>>), ExtRef("mitre-attack", FALSE, <<>>),
        ExtRef("mitre-attack", TRUE, <<84, 50>>), ExtRef("mitre-attack", TRUE, <<84, 49>>)>>,
      <<ExtRef("capec", TRUE, <<88>>), ExtRef("mitre-attack", FALSE, <<>>)>>,
      <<ExtRef("mitre-attack", TRUE, <<>>)>> }

HasMitreId(refs) ==
    \E i \in 1..Len(refs) : refs[i].source_name = "mitre-attack" /\ refs[i].has_external_id

BundleAttackPatterns ==
    { Obj("attack-pattern", Ref("attack-pattern", 1), "A", MkStr(2), FALSE, refs) :
          refs \in RefLists }
    \cup { Obj("attack-pattern", Ref("attack-pattern", 2), "B", MkStr(1), TRUE, refs) :
          refs \in {r \in RefLists : ~HasMitreId(r) \/ Len(r) > 2} }

\* every source object carries the same identifier, so that the buckets collide
BundleSources ==
    { Obj("course-of-action", Ref("x", 1), "coa", MkStr(TruncLen + 1), FALSE,
          <<ExtRef("mitre-attack", TRUE, <<77, 49>>)>>),
      Obj("intrusion-set", Ref("x", 1), "grp", MkStr(TruncLen), FALSE,
          <<ExtRef("mitre-attack", TRUE, <<71, 49>>)>>),
      Obj("malware", Ref("x", 1), "mal", MkStr(TruncLen + 3), FALSE,
          <<ExtRef("mitre-attack", TRUE, <<83, 49>>)>>),
      Obj("tool", Ref("x", 1), "tool", <<>>, FALSE, <<>>) }

BundleRelationships ==
    { Rel("mitigates", Ref("x", 1), Ref("attack-pattern", 1)),
      Rel("mitigates", Ref("x", 1), Ref("attack-pattern", 2)),
      Rel("uses", Ref("x", 1), Ref("attack-pattern", 1)),
      Rel("uses", Ref("x", 1), Ref("x", 1)) }

BundleObjects == BundleAttackPatterns \cup BundleSources \cup BundleRelationships

SeqsUpTo(S, n) == UNION { [1..k -> S] : k \in 0..n }

----------------------------------------------------------------------------
(* The bundle run: one parsed bundle through the partitioner, then the      *)
(* resolver on each attack pattern in the order of attack_patterns.values() *)

FolderIdle ==
    /\ folder = <<>>
    /\ pc = "idle"
    /\ json_files = <<>>
    /\ idx = 0
    /\ all_technique_ids = {}
    /\ total_techniques = 0
    /\ processed_files = <<>>
    /\ disk = NoFile
    /\ warnings = 0

InitBundle ==
    /\ FolderIdle
    /\ bundle \in SeqsUpTo(BundleObjects, MaxObjects)
    /\ bpc = "loaded"
    /\ processed_data = EmptyProcessed
    /\ results = <<>>

Partition ==
    /\ bpc = "loaded"
    /\ processed_data' = process_stix_data(bundle)
    /\ bpc' = "partitioned"
    /\ UNCHANGED <<bundle, results>>
    /\ UNCHANGED folderVars

Resolve ==
    /\ bpc = "partitioned"
    /\ Len(results) < Len(processed_data.attack_patterns)
    /\ results' = Append(results,
           extract_technique_data(processed_data.attack_patterns[Len(results) + 1],
                                  processed_data))
    /\ UNCHANGED <<bundle, bpc, processed_data>>
    /\ UNCHANGED folderVars

NextBundle == Partition \/ Resolve

SpecBundle == InitBundle /\ [][NextBundle]_vars

----------------------------------------------------------------------------
(* Vocabulary of the properties *)

Range(seq) == { seq[i] : i \in DOMAIN seq }

TechniqueIds(techniques) == { techniques[i].technique_id : i \in DOMAIN techniques }

TechniqueIds_of_records(records) == { r.technique_id : r \in records }

\* the files handled so far, in processing order
Handled == SubSeq(json_files, 1, idx)

AtFileBoundary == pc \in {"loop", "done"}

IsMitreId(ref) == ref.source_name = "mitre-attack" /\ ref.has_external_id

\* the external_id of the first mitre-attack entry that carries one
FirstMitreId(refs) ==
    refs[CHOOSE i \in 1..Len(refs) :
            IsMitreId(refs[i]) /\ \A j \in 1..(i - 1) : ~IsMitreId(refs[j])].external_id

\* the attack patterns of a file that reach the resolver
PatternsOf(file) ==
    IF file.load = "ok" THEN Range(process_stix_data(file.objects).attack_patterns) ELSE {}

\* an exception leaves the try block of the file
FileRaises(file) ==
    \/ file.load # "ok"
    \/ \E ap \in PatternsOf(file) :
          /\ HasMitreId(ap.external_references)
          /\ FirstMitreId(ap.external_references) # <<>>
          /\ ap.description_null

\* the records the resolver yields on the attack patterns of a file
RecordsOf(file) ==
    { extract_technique_data(ap, process_stix_data(file.objects)).record :
        ap \in { a \in PatternsOf(file) :
                   extract_technique_data(a, process_stix_data(file.objects)).status = "ok" } }

NotRaising(name) == ~FileRaises(folder[name])

TechniqueIds_of_file(file) == TechniqueIds_of_records(RecordsOf(file))

----------------------------------------------------------------------------
(* C1: whenever the output file holds a document, its techniques are in    *)
(* strictly ascending order of technique_id: sorted, and no identifier     *)
(* twice, whatever files failed and whatever appends were lost.            *)
C1_SortedUnique ==
    disk.readable =>
        \A i \in 1..(Len(disk.techniques) - 1) :
            StrLess(disk.techniques[i].technique_id, disk.techniques[i + 1].technique_id)

\* three records from two appends are on disk, and a file in between failed
C1_Witness ==
    /\ pc = "done"
    /\ disk.readable
    /\ Len(disk.techniques) >= 3
    /\ Len(processed_files) = 2
    /\ idx = 3
    /\ FileRaises(folder[json_files[2]])

----------------------------------------------------------------------------
\* the technique identifiers the files of the folder can yield
FolderIds == UNION { TechniqueIds_of_file(folder[name]) : name \in DOMAIN folder }

\* positions in json_files of the files holding an attack pattern that resolves to t
Holders(t) == { k \in DOMAIN json_files : t \in TechniqueIds_of_file(folder[json_files[k]]) }

Smallest(S) == CHOOSE k \in S : \A j \in S : k <= j

\* the record of the first attack pattern of the file, in the order of
\* attack_patterns.values(), that resolves to t
FirstRecord(file, t) ==
    LET pdata == process_stix_data(file.objects)
        aps == pdata.attack_patterns
        hit(i) == /\ extract_technique_data(aps[i], pdata).status = "ok"
                  /\ extract_technique_data(aps[i], pdata).record.technique_id = t
    IN extract_technique_data(aps[Smallest({i \in DOMAIN aps : hit(i)})], pdata).record

RecordsWithId(t) == { i \in DOMAIN disk.techniques : disk.techniques[i].technique_id = t }

(* C3: at completion, with no persistence step failed, a technique          *)
(* identifier held by two or more files, one of them processed without an   *)
(* exception, has exactly one record in the output, and it is the record    *)
(* resolved from the first such file in lexicographic order of file names.  *)
C3_FirstFileWins ==
    (pc = "done" /\ warnings = 0) =>
        \A t \in FolderIds :
            LET done == { k \in Holders(t) : json_files[k] \in Range(processed_files) } IN
            (Cardinality(Holders(t)) >= 2 /\ done # {}) =>
                /\ Cardinality(RecordsWithId(t)) = 1
                /\ \E i \in RecordsWithId(t) :
                      disk.techniques[i] = FirstRecord(folder[json_files[Smallest(done)]], t)

FinalMetadata == [total_techniques |-> total_techniques, processed_files |-> processed_files]

(* C4, as claimed: after each handled file, with no persistence step        *)
(* failed, the persisted metadata reflect the files processed so far.       *)
C4_MetadataPerFile ==
    (pc = "loop" /\ idx >= 1 /\ warnings = 0) => disk.metadata = FinalMetadata

(* C4, amended: while the files are handled the persisted metadata keep     *)
(* their initial values; handling a file rewrites only the techniques list, *)
(* once, adding the new records of that file unless the append fails;       *)
(* update_metadata writes the metadata once, after the last file, and       *)
(* unless that write fails they then hold the running count and the names   *)
(* of the files handled without an exception.                               *)
C4_MetadataOnceAtEnd ==
    /\ []((pc = "loop" /\ disk.readable) => disk.metadata = InitialMetadata)
    /\ []((pc = "done" /\ disk.readable) => disk.metadata \in {InitialMetadata, FinalMetadata})
    /\ [][ /\ (idx' = idx + 1 /\ disk'.readable) =>
                /\ disk'.metadata = disk.metadata
                /\ TechniqueIds(disk'.techniques) \in
                      { TechniqueIds(disk.techniques),
                        TechniqueIds(disk.techniques)
                            \cup (all_technique_ids' \ all_technique_ids) }
           /\ (idx' = idx + 1 /\ warnings' = warnings /\ processed_files' # processed_files) =>
                TechniqueIds(disk'.techniques) =
                    TechniqueIds(disk.techniques) \cup (all_technique_ids' \ all_technique_ids)
           /\ (pc = "loop" /\ pc' = "done" /\ warnings' = warnings) =>
                /\ disk'.metadata = FinalMetadata'
                /\ disk'.techniques = disk.techniques
                /\ processed_files' = SelectSeq(json_files, NotRaising)
         ]_vars

\* update_metadata has written the metadata of a run of three files, one failed
C4_Witness ==
    /\ pc = "done"
    /\ warnings = 0
    /\ idx = 3
    /\ Len(disk.metadata.processed_files) = 2
    /\ disk.metadata.total_techniques >= 2

(* C5: a file whose handling raises (at load, in the partitioner or in the  *)
(* resolver) is not in processed_files and none of the records it resolves  *)
(* to is in the output; the files after it are handled all the same, so     *)
(* processed_files is exactly the handled files that do not raise.          *)
C5_FailedFileSkipped ==
    AtFileBoundary =>
        /\ processed_files = SelectSeq(Handled, NotRaising)
        /\ \A k \in 1..idx :
              FileRaises(folder[json_files[k]]) =>
                  /\ json_files[k] \notin Range(processed_files)
                  /\ Range(disk.techniques) \cap RecordsOf(folder[json_files[k]]) = {}
        /\ pc = "done" => idx = Len(json_files)

\* the first file resolved a record and then raised; a later file is in the output
C5_Witness ==
    /\ pc = "done"
    /\ FileRaises(folder[json_files[1]])
    /\ RecordsOf(folder[json_files[1]]) # {}
    /\ processed_files # <<>>
    /\ disk.readable
    /\ disk.techniques # <<>>

(* C9: at every file boundary, even with no persistence step failed, the    *)
(* set of seen identifiers equals the identifiers of the persisted records. *)
C9_SeenEqualsPersisted ==
    (AtFileBoundary /\ warnings = 0) => all_technique_ids = TechniqueIds(disk.techniques)

(* C10: at completion, once update_metadata has written the metadata, the   *)
(* persisted total_techniques is the number of persisted records.           *)
C10_TotalMatchesRecords ==
    (pc = "done" /\ disk.readable /\ disk.metadata = FinalMetadata) =>
        disk.metadata.total_techniques = Len(disk.techniques)

----------------------------------------------------------------------------
(* Properties of the bundle run *)

BundleObjectsOfType(type) == { o \in Range(bundle) : o.type = type /\ o.id # NoRef }

\* the attack pattern the i-th result was resolved from
ResolvedPattern(i) == processed_data.attack_patterns[i]

\* the relationship edges of the bundle whose target is exactly this identifier
EdgesTo(id) ==
    LET targets(rel) == rel.target_ref = id IN SelectSeq(processed_data.relationships, targets)

\* the references the resolver owes to the edges that target this identifier
OwnReferences(id) ==
    find_relationships(id, EdgesTo(id), processed_data.mitigations,
                       processed_data.groups, processed_data.software)

(* C2: the record of an attack pattern A holds the brief mitigation, group  *)
(* and software references of the edges whose target_ref is A's own         *)
(* identifier and of no other edge.                                         *)
C2_OnlyOwnEdges ==
    \A i \in DOMAIN results :
        results[i].status = "ok" =>
            /\ results[i].record.mitigations = OwnReferences(ResolvedPattern(i).id).mitigations
            /\ results[i].record.related_groups = OwnReferences(ResolvedPattern(i).id).groups
            /\ results[i].record.related_software = OwnReferences(ResolvedPattern(i).id).software

(* C6: an attack pattern with no mitre-attack entry carrying an external_id *)
(* yields no record and no exception, whatever else it holds; a record that *)
(* is yielded carries the external_id of the first such entry of its        *)
(* attack pattern.                                                          *)
C6_TechniqueId ==
    \A i \in DOMAIN results :
        LET refs == ResolvedPattern(i).external_references IN
        /\ ~HasMitreId(refs) => results[i].status = "none"
        /\ results[i].status = "ok" =>
               /\ HasMitreId(refs)
               /\ results[i].record.technique_id = FirstMitreId(refs)

\* both cases in one bundle: a pattern without identifier and with a null
\* description was passed over, a pattern whose first usable entry comes third
\* was resolved
C6_Witness ==
    /\ \E i \in DOMAIN results :
          /\ results[i].status = "none"
          /\ ~HasMitreId(ResolvedPattern(i).external_references)
          /\ ResolvedPattern(i).description_null
    /\ \E i \in DOMAIN results :
          /\ results[i].status = "ok"
          /\ Len(ResolvedPattern(i).external_references) > 2

\* the last object of the bundle with this type and identifier
LastOfType(type, id) ==
    bundle[CHOOSE i \in DOMAIN bundle :
              /\ bundle[i].type = type /\ bundle[i].id = id
              /\ \A j \in DOMAIN bundle :
                    (bundle[j].type = type /\ bundle[j].id = id) => j <= i]

\* the software references a record may hold: of a tool, or of a malware whose
\* identifier no tool of the bundle has
AllowedSoftwareRefs ==
    { [name |-> o.name, description |-> BriefDescription(o.description),
       id |-> extract_technique_id(o.external_references)] :
        o \in BundleObjectsOfType("tool")
              \cup { m \in BundleObjectsOfType("malware") :
                       \A t \in BundleObjectsOfType("tool") : t.id # m.id } }

(* C7: an identifier that the bundle holds as a tool is, in the software    *)
(* bucket, the tool object, in whichever order malware and tool stand in    *)
(* the file; a software reference of a record then shows the tool.          *)
C7_ToolWins ==
    bpc = "partitioned" =>
        /\ \A t \in BundleObjectsOfType("tool") :
              /\ DictHas(processed_data.software, t.id)
              /\ DictGet(processed_data.software, t.id) = LastOfType("tool", t.id)
        /\ \A i \in DOMAIN results :
              results[i].status = "ok" =>
                  Range(results[i].record.related_software) \subseteq AllowedSoftwareRefs

\* the tool stands before the malware of the same identifier, and a record
\* holds a software reference
C7_Witness ==
    /\ \E i, j \in DOMAIN bundle :
          /\ i < j
          /\ bundle[i].type = "tool" /\ bundle[j].type = "malware"
          /\ bundle[i].id = bundle[j].id
    /\ \E i \in DOMAIN results :
          results[i].status = "ok" /\ results[i].record.related_software # <<>>

\* the references of all records
AllReferences ==
    UNION { Range(results[i].record.mitigations)
            \cup Range(results[i].record.related_groups)
            \cup Range(results[i].record.related_software) : i \in DOMAIN results }

TruncationLaw(original, brief) ==
    IF Len(original) <= TruncLen
    THEN brief = original
    ELSE /\ Len(brief) = TruncLen + 3
         /\ SubSeq(brief, 1, TruncLen) = SubSeq(original, 1, TruncLen)
         /\ SubSeq(brief, TruncLen + 1, TruncLen + 3) = <<46, 46, 46>>

(* C8: the description of every reference is that of its source object if  *)
(* that has at most 200 characters, none included, and else its first 200   *)
(* characters followed by '...', 203 characters in all.                     *)
C8_Truncation ==
    \A ref \in AllReferences :
        \E o \in Range(bundle) :
            /\ o.name = ref.name
            /\ o.type \in {"course-of-action", "intrusion-set", "malware", "tool"}
            /\ TruncationLaw(o.description, ref.description)

\* a mitigation of more than 200 characters was cut
C8_Witness ==
    \E i \in DOMAIN results :
        /\ results[i].status = "ok"
        /\ \E k \in DOMAIN results[i].record.mitigations :
              Len(results[i].record.mitigations[k].description) = TruncLen + 3

=============================================================================
